---- MODULE Spec2Model ----
(***************************************************************************)
(* Model of getconf.js, the diagnostic script of @noneforge/eslint-config. *)
(*                                                                         *)
(* The script copies the imported configuration array with a spread,       *)
(* walks the copy with forEach, overwrites languageOptions.parser and      *)
(* reassigns plugins on every record, and prints the array with            *)
(* console.dir.  The records and their languageOptions objects are heap    *)
(* objects: the array copy is shallow, so the copy's elements are the      *)
(* imported array's own records.                                           *)
(*                                                                         *)
(* JavaScript values are encoded as follows.                               *)
(*   - a primitive, a function or a class instance whose members are not   *)
(*     modelled is a record with a "type" field;                           *)
(*   - a plain object is a function from its own enumerable string keys    *)
(*     to values (no object of the model has a key named "type");          *)
(*   - [lo |-> j] is a reference to the languageOptions object j of the    *)
(*     heap, [rec |-> i] a reference to the record object i of the heap.   *)
(***************************************************************************)
EXTENDS Integers, Sequences, FiniteSets, TLC

\* ---------------------------------------------------------------- bounds

\* Longest imported configuration array.
MaxLen == 2

\* ---------------------------------------------------------------- values

NULL == [type |-> "null"]

UNDEFINED == [type |-> "undefined"]

Str(s) == [type |-> "string", val |-> s]

\* A function value (typeof 'function').
FUNC == [type |-> "function"]

\* A class instance (typeof 'object') whose members the script never reads.
OPAQUE == [type |-> "opaque"]

\* The empty plain object {}.
EmptyObject == [k \in {} |-> NULL]

\* The sentinel of line 7.
UnknownParser == Str("unknown parser")

\* The sentinel of line 16.
Unknown == Str("unknown")

\* A plain object (or a heap reference): anything without a "type" tag.
IsPlain(v) == "type" \notin DOMAIN v

\* JavaScript ToBoolean, as used by `if (x)` and `x && ...`.
Truthy(v) ==
  IF IsPlain(v) THEN TRUE
  ELSE CASE v.type \in {"null", "undefined"} -> FALSE
         [] v.type = "string" -> v.val # ""
         [] v.type = "number" -> v.val \notin {"0", "NaN"}
         [] v.type = "boolean" -> v.val = "true"
         [] OTHER -> TRUE

\* JavaScript typeof.
Typeof(v) ==
  IF IsPlain(v) THEN "object"
  ELSE CASE v.type \in {"null", "opaque"} -> "object"
         [] OTHER -> v.type

\* Object.keys(v): own enumerable string keys; none for a tagged value of
\* the model (its members are not modelled).
Keys(v) == IF IsPlain(v) THEN DOMAIN v ELSE {}

\* o[k] : the value under k, undefined when o has no such key.
Get(o, k) == IF IsPlain(o) /\ k \in DOMAIN o THEN o[k] ELSE UNDEFINED

\* o[k] = v on a plain object: k is added when missing, other keys stay.
SetKey(o, k, v) == [x \in DOMAIN o \cup {k} |-> IF x = k THEN v ELSE o[x]]

\* ------------------------------------------------- the redaction (lines 5-26)

\* Line 14 without its `info &&`: typeof null is 'object' too.
IsStructured_NoNullCheck(info) == Typeof(info) = "object"

\* `info && typeof info === 'object'` of line 14.
IsStructured(info) == Truthy(info) /\ Typeof(info) = "object"

\* Lines 15-18 copying each capability instead of replacing it.
RedactDescriptor_Copy(info) == [rKey \in Keys(info) |-> Get(info, rKey)]

\* The inner reduce of lines 15-18: a fresh object with the keys of info,
\* every value 'unknown'.
RedactDescriptor(info) == [rKey \in Keys(info) |-> Unknown]

\* Lines 11-24 putting the sentinel in place of the descriptor instead of a
\* redacted copy of the descriptor.
RedactPlugins_Flat(plugins) ==
  [key \in {k \in Keys(plugins) : IsStructured(Get(plugins, k))} |-> Unknown]

\* The outer reduce of lines 11-24: a fresh object holding, for every key
\* whose descriptor passes line 14, the redacted descriptor.
RedactPlugins(plugins) ==
  [key \in {k \in Keys(plugins) : IsStructured(Get(plugins, k))} |->
     RedactDescriptor(Get(plugins, key))]

\* `config.languageOptions?.parser` of line 6, given the heap of
\* languageOptions objects: undefined when languageOptions is missing, null
\* or undefined, otherwise the parser member of the object referred to.
ParserOf(config, langHeap) ==
  LET lo == Get(config, "languageOptions")
  IN  IF IsPlain(lo) /\ "lo" \in DOMAIN lo
        THEN Get(langHeap[lo.lo], "parser")
        ELSE UNDEFINED

\* Line 6 testing `!= null` instead of truthiness.
HasParser_NotNullish(config, langHeap) ==
  ParserOf(config, langHeap) \notin {UNDEFINED, NULL}

\* The condition of line 6.
HasParser(config, langHeap) == Truthy(ParserOf(config, langHeap))

\* Line 7 replacing the languageOptions object instead of its parser member.
AssignParser_Replace(langObject) == [parser |-> UnknownParser]

\* The assignment of line 7 on a languageOptions object.
AssignParser(langObject) == SetKey(langObject, "parser", UnknownParser)

\* The condition of line 10.
HasPlugins(config) == Truthy(Get(config, "plugins"))

\* Line 11 replacing the record instead of its plugins member.
AssignPlugins_Replace(config) ==
  [plugins |-> RedactPlugins(Get(config, "plugins"))]

\* The assignment of line 11 on a record.
AssignPlugins(config) ==
  SetKey(config, "plugins", RedactPlugins(Get(config, "plugins")))

\* Lines 6-25 on one record taken by value, its languageOptions object
\* inlined: what one isolated call of the callback makes of the record.
RedactRecord(config) ==
  LET lo == Get(config, "languageOptions")
      afterParser ==
        IF Truthy(Get(lo, "parser"))
          THEN SetKey(config, "languageOptions", SetKey(lo, "parser", UnknownParser))
          ELSE config
  IN  IF Truthy(Get(afterParser, "plugins"))
        THEN SetKey(afterParser, "plugins", RedactPlugins(Get(afterParser, "plugins")))
        ELSE afterParser

\* Line 3 copying the array back to front.
SpreadCopy_Reversed(array) ==
  [i \in 1..Len(array) |-> array[Len(array) + 1 - i]]

\* `[...baseConfig]` of line 3: a new array with the same elements.
SpreadCopy(array) == [i \in 1..Len(array) |-> array[i]]

\* What console.dir(test, { depth: null }) shows of one element: the record
\* with every reference followed.
Shown(element, recHeap, langHeap) ==
  IF element = NULL THEN NULL
  ELSE LET config == recHeap[element.rec]
       IN  [k \in DOMAIN config |->
              IF k = "languageOptions" /\ IsPlain(config[k]) /\ "lo" \in DOMAIN config[k]
                THEN langHeap[config[k].lo]
                ELSE config[k]]

\* What console.dir shows of an array.
ShownArray(array, recHeap, langHeap) ==
  [i \in 1..Len(array) |-> Shown(array[i], recHeap, langHeap)]

\* ----------------------------------------------------------------- inputs

\* The languageOptions objects the imported configuration may hold.
LangValues ==
  { EmptyObject,
    [parser |-> OPAQUE, ecmaVersion |-> Str("2022")],
    [parser |-> Str("")],
    [parser |-> NULL, ecmaVersion |-> Str("2022")] }

\* The values a record may hold under `plugins`.
PluginsValues ==
  { NULL,
    EmptyObject,
    [bad |-> NULL],
    [ts |-> [rules |-> OPAQUE, configs |-> FUNC], bad |-> Str("1.0.0"),
     fn |-> FUNC, bare |-> EmptyObject] }

Rules == [semi |-> Str("warn")]

\* The records an imported array of n elements may hold: `rules`, optionally
\* a reference to a languageOptions object, optionally `plugins`.
RecordValues(n) ==
  LET base == { [rules |-> Rules] } \cup
              { [rules |-> Rules, languageOptions |-> [lo |-> j]] : j \in 1..n }
  IN  base \cup { SetKey(r, "plugins", p) : r \in base, p \in PluginsValues }

\* The languageOptions object the record refers to, 0 when it has none.
LangRef(config) ==
  IF "languageOptions" \in DOMAIN config THEN config.languageOptions.lo ELSE 0

\* ------------------------------------------------------------------ state

VARIABLES
  baseConfig,   \* the imported array: each element NULL or [rec |-> i]
  recs,         \* heap of record objects
  lang,         \* heap of languageOptions objects
  recs0,        \* the record heap as imported
  lang0,        \* the languageOptions heap as imported
  test,         \* per run: the array of line 3
  idx,          \* per run: position of forEach in test
  pc,           \* per run: "import", "forEach", "done", "threw"
  pass,         \* per run: how many times the pass has been started
  printed,      \* per run: what console.dir showed, one entry per pass
  threwAt       \* per run: the position at which the callback threw, or 0

vars == <<baseConfig, recs, lang, recs0, lang0, test, idx, pc, pass, printed, threwAt>>

Runs == {1, 2}

Init ==
  /\ \E n \in 0..MaxLen :
       /\ baseConfig \in [1..n -> {NULL} \cup {[rec |-> i] : i \in 1..n}]
       /\ \A i \in 1..n : baseConfig[i] # NULL => baseConfig[i].rec = i
       /\ recs \in [{i \in 1..n : baseConfig[i] # NULL} -> RecordValues(n)]
       \* A languageOptions object is named after the first record that
       \* refers to it; later records may share it.
       /\ \A i \in DOMAIN recs :
            LangRef(recs[i]) # 0 =>
              /\ LangRef(recs[i]) <= i
              /\ LangRef(recs[i]) \in DOMAIN recs
              /\ LangRef(recs[LangRef(recs[i])]) = LangRef(recs[i])
  /\ lang \in [{i \in DOMAIN recs : LangRef(recs[i]) = i} -> LangValues]
  /\ recs0 = recs
  /\ lang0 = lang
  /\ test = [r \in Runs |-> << >>]
  /\ idx = [r \in Runs |-> 0]
  /\ pc = [r \in Runs |-> "import"]
  /\ pass = [r \in Runs |-> 0]
  /\ printed = [r \in Runs |-> << >>]
  /\ threwAt = [r \in Runs |-> 0]

\* Line 3: const test = [...baseConfig].
Spread(r) ==
  /\ pc[r] = "import"
  /\ test' = [test EXCEPT ![r] = SpreadCopy(baseConfig)]
  /\ idx' = [idx EXCEPT ![r] = 1]
  /\ pass' = [pass EXCEPT ![r] = 1]
  /\ pc' = [pc EXCEPT ![r] = "forEach"]
  /\ UNCHANGED <<baseConfig, recs, lang, recs0, lang0, printed, threwAt>>

\* Lines 5-26, one call of the forEach callback on a record object.
Callback(r) ==
  /\ pc[r] = "forEach"
  /\ idx[r] <= Len(test[r])
  /\ test[r][idx[r]] # NULL
  /\ LET id == test[r][idx[r]].rec
         config == recs[id]
     IN  /\ lang' = IF HasParser(config, lang)
                       THEN [lang EXCEPT ![config.languageOptions.lo] = AssignParser(@)]
                       ELSE lang
         /\ recs' = IF HasPlugins(config)
                       THEN [recs EXCEPT ![id] = AssignPlugins(@)]
                       ELSE recs
  /\ idx' = [idx EXCEPT ![r] = @ + 1]
  /\ UNCHANGED <<baseConfig, recs0, lang0, test, pc, pass, printed, threwAt>>

\* Line 6 on an element that is null or undefined: reading
\* config.languageOptions throws a TypeError, which ends the script.
CallbackThrows(r) ==
  /\ pc[r] = "forEach"
  /\ idx[r] <= Len(test[r])
  /\ test[r][idx[r]] = NULL
  /\ pc' = [pc EXCEPT ![r] = "threw"]
  /\ threwAt' = [threwAt EXCEPT ![r] = idx[r]]
  /\ UNCHANGED <<baseConfig, recs, lang, recs0, lang0, test, idx, pass, printed>>

\* Line 28: console.dir(test, { depth: null }) once forEach has returned.
Dir(r) ==
  /\ pc[r] = "forEach"
  /\ idx[r] > Len(test[r])
  /\ printed' = [printed EXCEPT ![r] = Append(@, ShownArray(test[r], recs, lang))]
  /\ pc' = [pc EXCEPT ![r] = "done"]
  /\ UNCHANGED <<baseConfig, recs, lang, recs0, lang0, test, idx, pass, threwAt>>

\* The pass of lines 5-26 started again on its own result `test`.
Again(r) ==
  /\ pc[r] = "done"
  /\ pass[r] = 1
  /\ idx' = [idx EXCEPT ![r] = 1]
  /\ pass' = [pass EXCEPT ![r] = 2]
  /\ pc' = [pc EXCEPT ![r] = "forEach"]
  /\ UNCHANGED <<baseConfig, recs, lang, recs0, lang0, test, printed, threwAt>>

\* One run of the script, as node runs it.
Next ==
  \/ Spread(1)
  \/ Callback(1)
  \/ CallbackThrows(1)
  \/ Dir(1)
  \/ Again(1)

Spec == Init /\ [][Next]_vars

\* Two runs of lines 3-28 over the same imported array, their callbacks
\* interleaved record by record.
NextTwo ==
  \E r \in Runs :
    \/ Spread(r)
    \/ Callback(r)
    \/ CallbackThrows(r)
    \/ Dir(r)

SpecTwo == Init /\ [][NextTwo]_vars

\* ------------------------------------------------- vocabulary of the claims

\* The i-th imported record by value, as it was before the script touched it.
In(i) == Shown(baseConfig[i], recs0, lang0)

\* The positions of the imported array.
Positions == 1..Len(baseConfig)

\* The positions of run 1 whose record the callback has been called on.
Visited ==
  { i \in 1..Len(test[1]) :
      test[1][i] # NULL /\ (pass[1] = 2 \/ (pass[1] = 1 /\ i < idx[1])) }

\* The record at position i of run 1 by value, as it is now.
Now(i) == Shown(test[1][i], recs, lang)

\* P holds of every input record and its output record in run 1: of the
\* records the callback has been called on, as they now are, and of the
\* records of every array console.dir has shown.
EveryPair(P(_, _)) ==
  /\ \A i \in Visited : P(In(i), Now(i))
  /\ \A p \in 1..Len(printed[1]) :
       \A i \in Positions : P(In(i), printed[1][p][i])

\* P holds of the input and output of some record console.dir has shown.
SomePair(P(_, _)) ==
  \E p \in 1..Len(printed[1]) :
    \E i \in Positions : P(In(i), printed[1][p][i])

\* A mapping in the sense of the data model: an object with keys, neither a
\* primitive nor null nor a function.
IsMapping(v) == IsPlain(v)

HasKey(o, k) == IsPlain(o) /\ k \in DOMAIN o

HasTwoCapabilities(v) == IsMapping(v) /\ Cardinality(DOMAIN v) >= 2

\* The first pass of run 1 has completed and its result has been shown.
FirstPassDone == Len(printed[1]) >= 1

\* ------------------------------------------------------------------ claims

\* C1 (as stated): once the pass has run and its result has been shown, the
\* array the run holds has the imported array's records, and every record
\* object and every languageOptions object of the import is deep-equal to
\* what it was before the run.
C1_NoMutation ==
  FirstPassDone =>
    /\ \A i \in 1..Len(baseConfig) : test[1][i] = baseConfig[i]
    /\ recs = recs0
    /\ lang = lang0

\* The parser member of the input record is there and is neither undefined
\* nor null.
ParserPresent(in) ==
  /\ HasKey(in, "languageOptions")
  /\ HasKey(in.languageOptions, "parser")
  /\ in.languageOptions.parser \notin {UNDEFINED, NULL}

\* The parser member of the input record is there and is truthy.
ParserTruthy(in) ==
  /\ HasKey(in, "languageOptions")
  /\ HasKey(in.languageOptions, "parser")
  /\ Truthy(in.languageOptions.parser)

\* The output record has under languageOptions exactly what the input had.
SameLanguageOptions(in, out) ==
  /\ HasKey(out, "languageOptions") <=> HasKey(in, "languageOptions")
  /\ Get(out, "languageOptions") = Get(in, "languageOptions")

C2_ParserRedactedWhenPresent_Pair(in, out) ==
  IF ParserPresent(in)
    THEN Get(Get(out, "languageOptions"), "parser") = UnknownParser
    ELSE SameLanguageOptions(in, out)

\* C2 (as stated): a record whose languageOptions has a parser member with
\* any present value comes out with parser 'unknown parser'; any other
\* record comes out with the languageOptions it had.
C2_ParserRedactedWhenPresent == EveryPair(C2_ParserRedactedWhenPresent_Pair)

C2_ParserRedactedWhenTruthy_Pair(in, out) ==
  IF ParserTruthy(in)
    THEN Get(Get(out, "languageOptions"), "parser") = UnknownParser
    ELSE SameLanguageOptions(in, out)

\* C2 (amended): a record whose languageOptions has a truthy parser member
\* comes out with parser 'unknown parser'; any other record, a falsy parser
\* ('' , 0, false, null) included, comes out with the languageOptions it had.
C2_ParserRedactedWhenTruthy == EveryPair(C2_ParserRedactedWhenTruthy_Pair)

C2_Witness_Pair(in, out) ==
  /\ ParserTruthy(in)
  /\ in.languageOptions.parser = OPAQUE
  /\ out.languageOptions.parser = UnknownParser

C2_Witness == SomePair(C2_Witness_Pair)

C3_DescriptorRedacted_Pair(in, out) ==
  HasKey(in, "plugins") /\ IsMapping(in.plugins) =>
    \A k \in DOMAIN in.plugins :
      IsMapping(in.plugins[k]) =>
        /\ HasKey(out, "plugins")
        /\ HasKey(out.plugins, k)
        /\ IsMapping(out.plugins[k])
        /\ DOMAIN out.plugins[k] = DOMAIN in.plugins[k]
        /\ \A c \in DOMAIN out.plugins[k] : out.plugins[k][c] = Unknown

\* C3: for every record with a plugins mapping and every plugin key whose
\* descriptor is a mapping, the output plugins holds under that key a mapping
\* with exactly the descriptor's keys, every value 'unknown'.
C3_DescriptorRedacted == EveryPair(C3_DescriptorRedacted_Pair)

C3_Witness_Pair(in, out) ==
  /\ HasKey(in, "plugins")
  /\ HasKey(in.plugins, "ts")
  /\ HasTwoCapabilities(in.plugins.ts)
  /\ out.plugins.ts = [rules |-> Unknown, configs |-> Unknown]

C3_Witness == SomePair(C3_Witness_Pair)

C4_KeysRestrictedToStructured_Pair(in, out) ==
  HasKey(in, "plugins") /\ IsMapping(in.plugins) =>
    /\ HasKey(out, "plugins")
    /\ IsMapping(out.plugins)
    /\ DOMAIN out.plugins =
         {k \in DOMAIN in.plugins : IsMapping(in.plugins[k])}

\* C4: for every record with a plugins mapping, the keys of the output
\* plugins are the input's keys whose descriptor is a mapping; a null,
\* primitive or function descriptor leaves no entry.
C4_KeysRestrictedToStructured == EveryPair(C4_KeysRestrictedToStructured_Pair)

C4_Witness_Pair(in, out) ==
  /\ HasKey(in, "plugins")
  /\ in.plugins = [bad |-> NULL]
  /\ out.plugins = EmptyObject

C4_Witness == SomePair(C4_Witness_Pair)

\* C5 (as stated): the pass never throws, whatever the array holds.
C5_NeverThrows == \A r \in Runs : pc[r] # "threw"

C6_KeySetsIdentical_Pair(in, out) ==
  /\ DOMAIN out = DOMAIN in
  /\ HasKey(in, "plugins") /\ IsMapping(in.plugins) =>
       /\ DOMAIN out.plugins = DOMAIN in.plugins
       /\ \A k \in DOMAIN in.plugins :
            IsMapping(in.plugins[k]) =>
              DOMAIN out.plugins[k] = DOMAIN in.plugins[k]

\* C6 (as stated): the top-level keys of the output record, the keys of its
\* plugins and the keys of each descriptor are those of the input record.
C6_KeySetsIdentical == EveryPair(C6_KeySetsIdentical_Pair)

C6_KeySetsIdenticalButDropped_Pair(in, out) ==
  /\ DOMAIN out = DOMAIN in
  /\ HasKey(in, "plugins") /\ IsMapping(in.plugins) =>
       /\ DOMAIN out.plugins \subseteq DOMAIN in.plugins
       /\ \A k \in DOMAIN in.plugins \ DOMAIN out.plugins :
            ~IsMapping(in.plugins[k])
       /\ \A k \in DOMAIN out.plugins :
            /\ IsMapping(in.plugins[k])
            /\ DOMAIN out.plugins[k] = DOMAIN in.plugins[k]

\* C6 (amended): the top-level keys of the output record are those of the
\* input record; the keys of its plugins are the input's less exactly the
\* keys whose descriptor is not a mapping; each descriptor kept has the keys
\* it had.  No key is added anywhere.
C6_KeySetsIdenticalButDropped == EveryPair(C6_KeySetsIdenticalButDropped_Pair)

C6_Witness_Pair(in, out) ==
  /\ HasKey(in, "plugins")
  /\ HasKey(in, "languageOptions")
  /\ IsMapping(in.plugins)
  /\ DOMAIN in.plugins = {"ts", "bad", "fn", "bare"}
  /\ DOMAIN out.plugins = {"ts", "bare"}

C6_Witness == SomePair(C6_Witness_Pair)

C7_PassThrough_Pair(in, out) ==
  /\ \A k \in DOMAIN in \ {"languageOptions", "plugins"} :
       HasKey(out, k) /\ out[k] = in[k]
  /\ HasKey(in, "languageOptions") =>
       /\ HasKey(out, "languageOptions")
       /\ \A m \in DOMAIN in.languageOptions \ {"parser"} :
            /\ HasKey(out.languageOptions, m)
            /\ out.languageOptions[m] = in.languageOptions[m]
  /\ ( /\ ~HasKey(Get(in, "languageOptions"), "parser")
       /\ ~HasKey(in, "plugins") ) => out = in

\* C7: every top-level field other than languageOptions and plugins, and
\* every member of languageOptions other than parser, has on the output
\* record the value it had; a record with no languageOptions.parser and no
\* plugins comes out deep-equal to itself.
C7_PassThrough == EveryPair(C7_PassThrough_Pair)

C7_Witness_Pair(in, out) ==
  /\ HasKey(in, "languageOptions")
  /\ HasKey(in, "plugins")
  /\ in.languageOptions = [parser |-> OPAQUE, ecmaVersion |-> Str("2022")]
  /\ out.languageOptions = [parser |-> UnknownParser, ecmaVersion |-> Str("2022")]
  /\ out.plugins # in.plugins
  /\ out.rules = Rules

C7_Witness == SomePair(C7_Witness_Pair)

\* C8: the array of the run has the length of the imported array and its
\* elements in the imported order, and every array shown has that length and
\* holds at position i the isolated redaction of the i-th imported record.
C8_OrderPreserved ==
  /\ pass[1] >= 1 =>
       /\ Len(test[1]) = Len(baseConfig)
       /\ \A i \in 1..Len(baseConfig) : test[1][i] = baseConfig[i]
  /\ \A p \in 1..Len(printed[1]) :
       /\ Len(printed[1][p]) = Len(baseConfig)
       /\ \A i \in Positions : printed[1][p][i] = RedactRecord(In(i))

C8_Witness ==
  /\ FirstPassDone
  /\ Len(baseConfig) >= 2
  /\ ParserTruthy(In(1))
  /\ ~HasKey(In(1), "plugins")
  /\ ~HasKey(In(2), "languageOptions")
  /\ HasKey(In(2), "plugins")
  /\ HasKey(In(2).plugins, "ts")
  /\ printed[1][1][1].languageOptions.parser = UnknownParser
  /\ printed[1][1][2].plugins.ts = [rules |-> Unknown, configs |-> Unknown]

\* C9: the pass run again on its own result shows what the first pass
\* showed, field for field.
C9_Idempotent ==
  Len(printed[1]) = 2 => printed[1][2] = printed[1][1]

C9_Witness ==
  /\ Len(printed[1]) = 2
  /\ \E i \in Positions :
       /\ printed[1][1][i] # In(i)
       /\ HasKey(printed[1][2][i], "languageOptions")
       /\ HasKey(printed[1][2][i], "plugins")
       /\ Get(printed[1][2][i].languageOptions, "parser") = UnknownParser
       /\ printed[1][2][i].plugins =
            [ts |-> [rules |-> Unknown, configs |-> Unknown], bare |-> EmptyObject]

\* The record objects an array refers to.
RecordObjects(array) == { array[i] : i \in 1..Len(array) } \ {NULL}

\* C10 (as stated): when two runs over the same imported array have both
\* finished, however their callbacks interleaved, each has shown the isolated
\* redaction of the imported array, and the two results share no record
\* object with each other or with the imported array.
C10_IndependentRuns ==
  (pc[1] = "done" /\ pc[2] = "done") =>
    /\ \A r \in Runs :
         /\ Len(printed[r][1]) = Len(baseConfig)
         /\ \A i \in Positions : printed[r][1][i] = RedactRecord(In(i))
    /\ RecordObjects(test[1]) \cap RecordObjects(test[2]) = {}
    /\ \A r \in Runs : RecordObjects(test[r]) \cap RecordObjects(baseConfig) = {}

\* The part of C10 that speaks of values only.
C10_ValuesOnly ==
  (pc[1] = "done" /\ pc[2] = "done") =>
    \A r \in Runs :
      /\ Len(printed[r][1]) = Len(baseConfig)
      /\ \A i \in Positions : printed[r][1][i] = RedactRecord(In(i))

====
